---- MODULE Spec2Model ----
(***************************************************************************)
(* TinyLink (src/server.js): an Express application over one PostgreSQL    *)
(* table, links(code, target_url, total_clicks, last_clicked, created_at). *)
(*                                                                         *)
(* Every route handler is an async function: its synchronous prefix runs   *)
(* when the request arrives, and each `await db.query(...)` is one SQL     *)
(* statement the store executes atomically at some later moment.  Between  *)
(* the arrival and a statement, and between two statements of one handler, *)
(* the statements of other requests interleave freely.  The continuation   *)
(* after a statement touches only the request's own response, so it is     *)
(* folded into the statement's step.                                       *)
(*                                                                         *)
(* Strings are sequences of one-character strings, so that the regular     *)
(* expression, the URL check and ILIKE are computed character by character. *)
(***************************************************************************)
EXTENDS Integers, Sequences, FiniteSets

(* ------------------------------- bounds -------------------------------- *)

\* number of HTTP requests of one run
MaxReqs == 2
\* last value of the store's clock (NOW())
MaxTime == 1

Reqs == 1..MaxReqs

(* ----------------------------- characters ------------------------------ *)

\* server.js:35  the alphabet of generateCode
chars ==
  << "A","B","C","D","E","F","G","H","I","J","K","L","M",
     "N","O","P","Q","R","S","T","U","V","W","X","Y","Z",
     "a","b","c","d","e","f","g","h","i","j","k","l","m",
     "n","o","p","q","r","s","t","u","v","w","x","y","z",
     "0","1","2","3","4","5","6","7","8","9" >>

UpperLetters == { chars[i] : i \in 1..26 }
LowerLetters == { chars[i] : i \in 27..52 }
Digits       == { chars[i] : i \in 53..62 }
AlphaNum     == UpperLetters \cup LowerLetters \cup Digits

\* the case folding ILIKE compares under
ToLower(ch) ==
  IF ch \in UpperLetters
    THEN chars[(CHOOSE i \in 1..26 : chars[i] = ch) + 26]
    ELSE ch

(* ---------------------------- JavaScript values ------------------------ *)

\* a request field is either absent (undefined) or a string
Undefined == [t |-> "undefined", s |-> << >>]
Str(s)    == [t |-> "string", s |-> s]
\* JavaScript truthiness: undefined and "" are falsy
Truthy(v) == v.t = "string" /\ v.s # << >>

\* SQL NULL of the nullable last_clicked column; a value t is <<t>>
NULL == << >>

(* ------------------------------- inputs -------------------------------- *)

CodeA     == << "a","B","c","1","2","3" >>
CodeB     == << "q","R","s","t","u","v","w","8" >>
CodeG     == << "G","e","n","0","0","1" >>
CodeShort == << "a","b","c","d","e" >>
CodeLong  == << "a","b","c","d","e","f","g","h","i" >>
CodeDash  == << "a","b","-","d","e","f" >>

Url1   == << "h","t","t","p",":","/","/","x",".","i","o" >>
Url2   == << "h","t","t","p","s",":","/","/","A","b",".","c" >>
UrlBad == << "x",".","i","o" >>

\* req.body.code of POST /api/links
BodyCodes ==
  { Undefined, Str(<< >>), Str(CodeA), Str(CodeB),
    Str(CodeShort), Str(CodeLong), Str(CodeDash) }
\* req.body.url of POST /api/links
BodyUrls == { Undefined, Str(UrlBad), Str(Url1), Str(Url2) }
\* req.params.code of the /:code routes
RouteCodes == { CodeA, CodeB }
\* req.query.q of the list routes
Queries == { Undefined, Str(<< "a","b" >>), Str(<< "%" >>) }
\* the draws of Math.random() are sampled: the codes generateCode may return
CodeSample == { CodeA, CodeG, CodeShort }

(* ------------------------------- helpers ------------------------------- *)

\* (mutant) {6,} for {6,8}
CODE_REGEX_NoUpper(s) ==
  /\ Len(s) >= 6
  /\ \A i \in 1..Len(s) : s[i] \in AlphaNum

\* /^[A-Za-z0-9]{6,8}$/.test(s)
CODE_REGEX(s) ==
  /\ Len(s) >= 6
  /\ Len(s) <= 8
  /\ \A i \in 1..Len(s) : s[i] \in AlphaNum

SchemeChars == AlphaNum \cup { "+", "-", "." }
SpecialSchemes ==
  { << "h","t","t","p" >>, << "h","t","t","p","s" >>, << "f","t","p" >>,
    << "w","s" >>, << "w","s","s" >> }

\* index of the first ":" of s, 0 when there is none
ColonAt(s) ==
  IF \E i \in 1..Len(s) : s[i] = ":"
    THEN CHOOSE i \in 1..Len(s) : s[i] = ":" /\ \A j \in 1..(i - 1) : s[j] # ":"
    ELSE 0

\* s without its leading "/" characters
RECURSIVE SkipSlashes(_)
SkipSlashes(s) ==
  IF s # << >> /\ Head(s) = "/" THEN SkipSlashes(Tail(s)) ELSE s

\* new URL(str) without a base: an absolute URL needs a scheme, and a special
\* scheme needs a non-empty host
isValidUrl(str) ==
  LET k == ColonAt(str) IN
  /\ k > 1
  /\ str[1] \in UpperLetters \cup LowerLetters
  /\ \A i \in 1..(k - 1) : str[i] \in SchemeChars
  /\ LET scheme == [i \in 1..(k - 1) |-> ToLower(str[i])]
         rest   == SubSeq(str, k + 1, Len(str))
     IN  scheme \in SpecialSchemes =>
           LET host == SkipSlashes(rest) IN
             host # << >> /\ Head(host) \notin { "?", "#", ":", "@", " " }

\* (mutant) the loop bound is ignored
generateCodeAnyLength(length) ==
  { s \in CodeSample : \A i \in 1..Len(s) : \E k \in 1..Len(chars) : s[i] = chars[k] }

\* the strings generateCode(length) can return: `length` characters of chars
generateCode(length) ==
  { s \in CodeSample :
      /\ Len(s) = length
      /\ \A i \in 1..length : \E k \in 1..Len(chars) : s[i] = chars[k] }

(* ------------------------------ the store ------------------------------ *)

\* the row INSERT INTO links (code, target_url) creates: the other columns
\* take their defaults
DefaultRow(code, url, t) ==
  [ code |-> code, target_url |-> url, total_clicks |-> 0,
    last_clicked |-> NULL, created_at |-> t ]

\* the primary key on code: a second row of the same code is error 23505
UniqueViolation(rs, code) == \E row \in rs : row.code = code

\* the columns the list, create and dashboard statements return
Listed(row) ==
  [ code |-> row.code, target_url |-> row.target_url,
    total_clicks |-> row.total_clicks, last_clicked |-> row.last_clicked ]

\* ORDER BY created_at DESC: every order of rs that is newest first (rows
\* of equal created_at come in either order)
OrderByCreatedDesc(rs) ==
  { f \in [1..Cardinality(rs) -> rs] :
      /\ \A i, j \in 1..Cardinality(rs) : i # j => f[i] # f[j]
      /\ \A i, j \in 1..Cardinality(rs) :
           i < j => f[i].created_at >= f[j].created_at }

\* s LIKE p, compared case-insensitively (ILIKE): % is any run of
\* characters, _ any one character, backslash quotes the next character
RECURSIVE ILike(_, _)
ILike(s, p) ==
  IF p = << >> THEN s = << >>
  ELSE IF Head(p) = "%"
    THEN ILike(s, Tail(p)) \/ (s # << >> /\ ILike(Tail(s), p))
  ELSE IF Head(p) = "\\" /\ Len(p) >= 2
    THEN /\ s # << >>
         /\ ToLower(Head(s)) = ToLower(p[2])
         /\ ILike(Tail(s), Tail(Tail(p)))
  ELSE /\ s # << >>
       /\ Head(p) = "_" \/ ToLower(Head(s)) = ToLower(Head(p))
       /\ ILike(Tail(s), Tail(p))

\* ... WHERE code ILIKE $1 OR target_url ILIKE $1
SelectLike(rs, like) ==
  { row \in rs : ILike(row.code, like) \/ ILike(row.target_url, like) }

(* ------------------------------- state --------------------------------- *)

VARIABLES
  links,   \* the rows of table links
  now,     \* the store's clock, the value of NOW()
  reqs,    \* the requests: their inputs, position, response and statements
  gone     \* the codes deleted and not created again since

vars == << links, now, reqs, gone >>

\* a request that has not arrived
IdleReq ==
  [ kind |-> "none", pc |-> "idle", url |-> Undefined,
    bodyCode |-> Undefined, code |-> Undefined, q |-> Undefined, targetUrl |-> << >>, status |-> 0, error |-> "",
    loc |-> << >>, rows |-> << >>, threw |-> FALSE ]

\* the table outlives the process: it starts empty, or holding a link made
\* by an earlier run and not clicked since
Init ==
  /\ links \in { {}, { DefaultRow(CodeA, Url1, 0) } }
  /\ now = 0
  /\ reqs = [r \in Reqs |-> IdleReq]
  /\ gone = {}

\* requests arrive in the order of their numbers
Arrives(r) ==
  /\ reqs[r].pc = "idle"
  /\ r > 1 => reqs[r - 1].pc # "idle"

At(r, kind, pc) == reqs[r].kind = kind /\ reqs[r].pc = pc

\* the response ends the request, whose inputs and local variables are
\* dropped; its kind and its route's code stay on record, and whether a
\* statement of its failed in the store
Finish(r, status, error, loc, rows, threw) ==
  reqs' = [reqs EXCEPT ![r] =
             [IdleReq EXCEPT !.kind = reqs[r].kind, !.pc = "done",
                             !.code = IF reqs[r].kind = "create"
                                        THEN Undefined ELSE reqs[r].code,
                             !.status = status, !.error = error,
                             !.loc = loc, !.rows = rows, !.threw = threw]]

\* res.status(n).json(...), .send(...), .redirect(...), .render(...)
Respond(r, status, error, loc, rows) ==
  Finish(r, status, error, loc, rows, FALSE)

\* db.query rejected with an error of the store (none of its constraints):
\* the statement changed nothing, and the catch block answers 500
Fails(r) ==
  /\ Finish(r, 500, "Internal Server Error", << >>, << >>, TRUE)
  /\ UNCHANGED << links, now, gone >>

\* the store's clock advances
Tick ==
  /\ now < MaxTime
  /\ now' = now + 1
  /\ UNCHANGED << links, reqs, gone >>

(* --------------------------- GET /:code -------------------------------- *)

RedirectReceive(r, code) ==
  /\ Arrives(r)
  /\ reqs' = [reqs EXCEPT ![r] =
               [IdleReq EXCEPT !.kind = "redirect", !.pc = "select",
                               !.code = Str(code)]]
  /\ UNCHANGED << links, now, gone >>

\* (mutant) the WHERE clause is lost
RedirectSelectSqlAll(rs, code) == rs

\* SELECT target_url FROM links WHERE code = $1
RedirectSelectSql(rs, code) == { row \in rs : row.code = code }

\* (mutant) the error is swallowed and the client redirected all the same
RedirectCatchSwallowed(r) ==
  /\ Finish(r, 302, "", reqs[r].targetUrl, << >>, TRUE)
  /\ UNCHANGED << links, now, gone >>

\* catch (err) { ... res.status(500).send('Internal Server Error') }
RedirectCatch(r) == Fails(r)

RedirectSelect(r) ==
  /\ At(r, "redirect", "select")
  /\ \/ RedirectCatch(r)
     \/ LET result == RedirectSelectSql(links, reqs[r].code.s) IN
        /\ IF Cardinality(result) = 0
             THEN Respond(r, 404, "Not found", << >>, << >>)
             ELSE reqs' = [reqs EXCEPT ![r] =
                     [@ EXCEPT !.pc = "update",
                               !.targetUrl =
                                  (CHOOSE row \in result : TRUE).target_url]]
        /\ UNCHANGED << links, now, gone >>

\* (mutant) the counter is written from a value read before the statement
\* instead of incremented in it: total_clicks = 1 for a link first seen at 0
RedirectUpdateSqlLost(rs, code, t) ==
  { IF row.code = code
      THEN [row EXCEPT !.total_clicks = 1, !.last_clicked = << t >>]
      ELSE row : row \in rs }

\* (mutant) the click is counted twice
RedirectUpdateSqlTwice(rs, code, t) ==
  { IF row.code = code
      THEN [row EXCEPT !.total_clicks = @ + 2, !.last_clicked = << t >>]
      ELSE row : row \in rs }

\* UPDATE links SET total_clicks = total_clicks + 1, last_clicked = NOW()
\* WHERE code = $1
RedirectUpdateSql(rs, code, t) ==
  { IF row.code = code
      THEN [row EXCEPT !.total_clicks = @ + 1, !.last_clicked = << t >>]
      ELSE row : row \in rs }

RedirectUpdate(r) ==
  /\ At(r, "redirect", "update")
  /\ \/ RedirectCatch(r)
     \/ LET after == RedirectUpdateSql(links, reqs[r].code.s, now) IN
        /\ links' = after
        /\ Respond(r, 302, "", reqs[r].targetUrl, << >>)
        /\ UNCHANGED << now, gone >>

(* -------------------------- POST /api/links ---------------------------- *)

\* the handler up to its await: the two validations, then the code to insert
CreateReceive(r, url, code) ==
  /\ Arrives(r)
  /\ LET arrived == [IdleReq EXCEPT !.kind = "create", !.url = url,
                                    !.bodyCode = code, !.code = code]
     IN
     IF ~Truthy(url) \/ ~isValidUrl(url.s)
       THEN reqs' = [reqs EXCEPT ![r] =
               [IdleReq EXCEPT !.kind = "create", !.pc = "done",
                               !.status = 400,
                               !.error = "Invalid or missing URL"]]
     ELSE IF Truthy(code) /\ ~CODE_REGEX(code.s)
       THEN reqs' = [reqs EXCEPT ![r] =
               [IdleReq EXCEPT !.kind = "create", !.pc = "done",
                               !.status = 400,
                               !.error = "Custom code must match [A-Za-z0-9]{6,8}"]]
     ELSE IF ~Truthy(code)
       THEN \E c \in generateCode(6) :
              reqs' = [reqs EXCEPT ![r] =
                 [arrived EXCEPT !.pc = "insert", !.code = Str(c)]]
     ELSE reqs' = [reqs EXCEPT ![r] = [arrived EXCEPT !.pc = "insert"]]
  /\ UNCHANGED << links, now, gone >>

\* INSERT INTO links (code, target_url) VALUES ($1, $2)
CreateInsertSql(rs, code, url, t) == rs \cup { DefaultRow(code, url, t) }

\* (mutant) the unique violation is not told apart: every error is 500
CreateCatchAll500(r, errcode) ==
  /\ Finish(r, 500, "Internal Server Error", << >>, << >>,
            errcode # "23505")
  /\ UNCHANGED << links, now, gone >>

\* catch (err): a unique violation (23505) is 409, anything else 500
CreateCatch(r, errcode) ==
  /\ IF errcode = "23505"
       THEN Respond(r, 409, "Code already exists", << >>, << >>)
       ELSE Finish(r, 500, "Internal Server Error", << >>, << >>, TRUE)
  /\ UNCHANGED << links, now, gone >>

CreateInsert(r) ==
  /\ At(r, "create", "insert")
  /\ \/ CreateCatch(r, "XX000")
     \/ IF UniqueViolation(links, reqs[r].code.s)
          THEN CreateCatch(r, "23505")
          ELSE LET after == CreateInsertSql(links, reqs[r].code.s,
                                            reqs[r].url.s, now)
               IN
               /\ links' = after
               /\ gone' = gone \ { reqs[r].code.s }
               /\ \E out \in OrderByCreatedDesc(after \ links) :
                    Respond(r, 201, "", << >>,
                            [i \in DOMAIN out |-> Listed(out[i])])
               /\ UNCHANGED now

(* --------------------------- GET /api/links ---------------------------- *)

ListReceive(r, q) ==
  /\ Arrives(r)
  /\ reqs' = [reqs EXCEPT ![r] =
               [IdleReq EXCEPT !.kind = "list", !.pc = "query", !.q = q]]
  /\ UNCHANGED << links, now, gone >>

\* SELECT code, target_url, total_clicks, last_clicked FROM links
\* ORDER BY created_at DESC
ListSql(rs, q) == OrderByCreatedDesc(rs)

ListQuery(r) ==
  /\ At(r, "list", "query")
  /\ \/ Fails(r)
     \/ /\ \E out \in ListSql(links, reqs[r].q) :
             Respond(r, 200, "", << >>,
                     [i \in DOMAIN out |-> Listed(out[i])])
        /\ UNCHANGED << links, now, gone >>

(* -------------------------------- GET / -------------------------------- *)

DashboardReceive(r, q) ==
  /\ Arrives(r)
  /\ reqs' = [reqs EXCEPT ![r] =
               [IdleReq EXCEPT !.kind = "dashboard", !.pc = "query",
                               \* const q = req.query.q || ''
                               !.q = IF Truthy(q) THEN q ELSE Str(<< >>)]]
  /\ UNCHANGED << links, now, gone >>

\* with q: ... WHERE code ILIKE $1 OR target_url ILIKE $1 ORDER BY
\* created_at DESC, $1 being %q%; without: every row, in the same order
DashboardSql(rs, q) ==
  IF Truthy(q)
    THEN OrderByCreatedDesc(SelectLike(rs, << "%" >> \o q.s \o << "%" >>))
    ELSE OrderByCreatedDesc(rs)

DashboardQuery(r) ==
  /\ At(r, "dashboard", "query")
  /\ \/ Fails(r)
     \/ /\ \E out \in DashboardSql(links, reqs[r].q) :
             Respond(r, 200, "", << >>,
                     [i \in DOMAIN out |-> Listed(out[i])])
        /\ UNCHANGED << links, now, gone >>

(* ------------------ GET /api/links/:code, GET /code/:code --------------- *)

GetReceive(r, code) ==
  /\ Arrives(r)
  /\ reqs' = [reqs EXCEPT ![r] =
               [IdleReq EXCEPT !.kind = "get", !.pc = "query",
                               !.code = Str(code)]]
  /\ UNCHANGED << links, now, gone >>

\* SELECT code, target_url, total_clicks, last_clicked, created_at
\* FROM links WHERE code = $1
GetSql(rs, code) == { row \in rs : row.code = code }

GetQuery(r) ==
  /\ At(r, "get", "query")
  /\ \/ Fails(r)
     \/ LET result == GetSql(links, reqs[r].code.s) IN
        /\ IF Cardinality(result) = 0
             THEN Respond(r, 404, "Link not found", << >>, << >>)
             ELSE Respond(r, 200, "", << >>,
                          << CHOOSE row \in result : TRUE >>)
        /\ UNCHANGED << links, now, gone >>

StatsReceive(r, code) ==
  /\ Arrives(r)
  /\ reqs' = [reqs EXCEPT ![r] =
               [IdleReq EXCEPT !.kind = "stats", !.pc = "query",
                               !.code = Str(code)]]
  /\ UNCHANGED << links, now, gone >>

StatsSql(rs, code) == { row \in rs : row.code = code }

StatsQuery(r) ==
  /\ At(r, "stats", "query")
  /\ \/ Fails(r)
     \/ LET result == StatsSql(links, reqs[r].code.s) IN
        /\ IF Cardinality(result) = 0
             THEN Respond(r, 404, "Link not found", << >>, << >>)
             ELSE Respond(r, 200, "", << >>,
                          << CHOOSE row \in result : TRUE >>)
        /\ UNCHANGED << links, now, gone >>

(* ----------------------- DELETE /api/links/:code ----------------------- *)

DeleteReceive(r, code) ==
  /\ Arrives(r)
  /\ reqs' = [reqs EXCEPT ![r] =
               [IdleReq EXCEPT !.kind = "delete", !.pc = "delete",
                               !.code = Str(code)]]
  /\ UNCHANGED << links, now, gone >>

\* (mutant) the WHERE clause is lost
DeleteSqlAll(rs, code) == {}

\* DELETE FROM links WHERE code = $1
DeleteSql(rs, code) == { row \in rs : row.code # code }

DeleteExec(r) ==
  /\ At(r, "delete", "delete")
  /\ \/ Fails(r)
     \/ LET after == DeleteSql(links, reqs[r].code.s) IN
        /\ links' = after
        /\ IF Cardinality(links \ after) = 0
             THEN /\ Respond(r, 404, "Link not found", << >>, << >>)
                  /\ UNCHANGED gone
             ELSE /\ Respond(r, 204, "", << >>, << >>)
                  /\ gone' = gone \cup { reqs[r].code.s }
        /\ UNCHANGED now

(* ---------------------------- specification ---------------------------- *)

Next ==
  \/ Tick
  \/ \E r \in Reqs, code \in RouteCodes : RedirectReceive(r, code)
  \/ \E r \in Reqs : RedirectSelect(r)
  \/ \E r \in Reqs : RedirectUpdate(r)
  \/ \E r \in Reqs, url \in BodyUrls, code \in BodyCodes :
       CreateReceive(r, url, code)
  \/ \E r \in Reqs : CreateInsert(r)
  \/ \E r \in Reqs, q \in Queries : ListReceive(r, q)
  \/ \E r \in Reqs : ListQuery(r)
  \/ \E r \in Reqs, q \in Queries : DashboardReceive(r, q)
  \/ \E r \in Reqs : DashboardQuery(r)
  \/ \E r \in Reqs, code \in RouteCodes : GetReceive(r, code)
  \/ \E r \in Reqs : GetQuery(r)
  \/ \E r \in Reqs, code \in RouteCodes : StatsReceive(r, code)
  \/ \E r \in Reqs : StatsQuery(r)
  \/ \E r \in Reqs, code \in RouteCodes : DeleteReceive(r, code)
  \/ \E r \in Reqs : DeleteExec(r)

Spec == Init /\ [][Next]_vars

(* ------------------------------ the claims ----------------------------- *)

HasRow(c) == \E row \in links : row.code = c
RowOf(rs, c) == CHOOSE row \in rs : row.code = c

\* the pattern ^[A-Za-z0-9]{6,8}$ as the specification words it
MatchesPattern(s) ==
  /\ Len(s) \in 6..8
  /\ \A i \in 1..Len(s) :
       s[i] \in { "A","B","C","D","E","F","G","H","I","J","K","L","M",
                  "N","O","P","Q","R","S","T","U","V","W","X","Y","Z",
                  "a","b","c","d","e","f","g","h","i","j","k","l","m",
                  "n","o","p","q","r","s","t","u","v","w","x","y","z",
                  "0","1","2","3","4","5","6","7","8","9" }

\* the request r answers in this step
Answers(r) == reqs[r].pc # "done" /\ reqs'[r].pc = "done"

RedirectsOf(c) ==
  { r \in Reqs : reqs[r].kind = "redirect" /\ reqs[r].code = Str(c) }

\* C1: for a link that is in the table from the start and is not deleted,
\* once all the redirect requests for its code have answered, total_clicks
\* is the number of those requests whose statements ran (each answered 302):
\* with no store failure, exactly N for N requests, however the SELECTs and
\* UPDATEs interleaved.
C1_ConcurrentRedirectsCountExactly ==
  \A c \in RouteCodes :
    ( /\ HasRow(c)
      /\ \A r \in Reqs :
           /\ ~(reqs[r].kind = "delete" /\ reqs[r].code = Str(c)
                  /\ reqs[r].status = 204)
           /\ ~(reqs[r].kind = "create" /\ reqs[r].status = 201
                  /\ reqs[r].rows[1].code = c)
      /\ \A r \in RedirectsOf(c) : reqs[r].pc = "done" )
    => /\ \A r \in RedirectsOf(c) :
            reqs[r].status = (IF reqs[r].threw THEN 500 ELSE 302)
       /\ RowOf(links, c).total_clicks =
            Cardinality({ r \in RedirectsOf(c) : ~reqs[r].threw })

\* two redirects of the initial link have both answered 302, and the counter is 2
C1_Witness ==
  /\ reqs[1].kind = "redirect" /\ reqs[1].status = 302
  /\ reqs[2].kind = "redirect" /\ reqs[2].status = 302
  /\ reqs[1].code = Str(CodeA) /\ reqs[2].code = Str(CodeA)
  /\ HasRow(CodeA) /\ RowOf(links, CodeA).total_clicks = 2

\* C2: every redirect request that answers 302 has, in the step of its
\* UPDATE, raised total_clicks by exactly 1 on a stored row of its code, and
\* its Location is the target_url of that row; one whose UPDATE met no row
\* does not answer 302.
C2_EveryRedirectIsCounted ==
  [][ \A r \in Reqs :
        (reqs[r].kind = "redirect" /\ Answers(r) /\ reqs'[r].status = 302)
        => \E row \in links :
             /\ row.code = reqs[r].code.s
             /\ \E after \in links' :
                  /\ after.code = row.code
                  /\ after.total_clicks = row.total_clicks + 1
                  /\ reqs'[r].loc = after.target_url ]_vars

\* C5: a redirect request whose code has no row when its lookup runs answers
\* 404 (500 if the lookup fails in the store), never a redirect, and the
\* step leaves every row as it was.
C5_UnknownCodeIsNotFound ==
  [][ \A r \in Reqs :
        ( /\ reqs[r].kind = "redirect"
          /\ reqs[r].pc = "select"
          /\ ~HasRow(reqs[r].code.s)
          /\ reqs'[r] # reqs[r] )
        => /\ reqs'[r].pc = "done"
           /\ reqs'[r].status = (IF reqs'[r].threw THEN 500 ELSE 404)
           /\ reqs'[r].loc = << >>
           /\ links' = links ]_vars

\* a redirect for CodeB answered 404 while the table held another link
C5_Witness ==
  \E r \in Reqs :
    /\ reqs[r].kind = "redirect" /\ reqs[r].code = Str(CodeB)
    /\ reqs[r].status = 404 /\ reqs[r].loc = << >>
    /\ HasRow(CodeA) /\ ~HasRow(CodeB)

\* C10: a redirect request gives exactly one answer, one of 302, 404 and
\* 500, and never changes it; if a statement of its failed in the store the
\* answer is 500; 302 is sent only in the step in which the UPDATE ran
\* without error.
C10_StoreErrorIs500 ==
  [][ \A r \in Reqs :
        /\ reqs[r].pc = "done" => reqs'[r] = reqs[r]
        /\ (reqs[r].kind = "redirect" /\ Answers(r))
           => /\ reqs'[r].status \in { 302, 404, 500 }
              /\ reqs'[r].threw => reqs'[r].status = 500
              /\ reqs'[r].status = 302
                 => /\ reqs[r].pc = "update"
                    /\ ~reqs'[r].threw
                    /\ \A row \in links :
                         row.code = reqs[r].code.s
                         => \E after \in links' :
                              /\ after.code = row.code
                              /\ after.total_clicks = row.total_clicks + 1 ]_vars

\* the only request, a redirect of the stored link, met a store failure and
\* answered 500; the counter stands at 0
C10_Witness ==
  \E r \in Reqs :
    /\ reqs[r].kind = "redirect" /\ reqs[r].code = Str(CodeA)
    /\ reqs[r].status = 500 /\ reqs[r].threw
    /\ HasRow(CodeA) /\ RowOf(links, CodeA).total_clicks = 0
    /\ \A q \in Reqs \ { r } : reqs[q].pc = "idle"

\* no two rows of the table share a code
UniqueCodes == \A a, b \in links : a.code = b.code => a = b

\* C3: a POST with an explicit code that has a row when its INSERT runs
\* answers 409 (500 if the statement fails in the store) and leaves the table
\* as it was, so the row of the first create keeps its target_url,
\* total_clicks and last_clicked; and no two rows ever share a code.
C3_DuplicateCodeIsConflict ==
  /\ []UniqueCodes
  /\ [][ \A r \in Reqs :
           ( /\ reqs[r].kind = "create"
             /\ reqs[r].pc = "insert"
             /\ Truthy(reqs[r].bodyCode)
             /\ HasRow(reqs[r].code.s)
             /\ reqs'[r] # reqs[r] )
           => /\ reqs'[r].pc = "done"
              /\ reqs'[r].status = (IF reqs'[r].threw THEN 500 ELSE 409)
              /\ links' = links ]_vars

\* two creates of CodeB: one answered 201, the other 409, and the table holds
\* the one row the first made
C3_Witness ==
  \E r1, r2 \in Reqs :
    /\ reqs[r1].kind = "create" /\ reqs[r1].status = 201
    /\ reqs[r1].rows[1].code = CodeB
    /\ reqs[r2].kind = "create" /\ reqs[r2].status = 409
    /\ Cardinality({ row \in links : row.code = CodeB }) = 1
    /\ RowOf(links, CodeB).target_url = reqs[r1].rows[1].target_url
    /\ ~HasRow(CodeA)

\* POST /api/links answers 400 only before any statement, and the table is
\* as it was
BadRequestTouchesNothing ==
  \A r \in Reqs :
    (Answers(r) /\ reqs'[r].kind = "create" /\ reqs'[r].status = 400)
    => reqs[r].pc = "idle" /\ links' = links

\* C6 as claimed: every custom code that does not match ^[A-Za-z0-9]{6,8}$,
\* the empty one included, is answered 400 when the url is valid; and a 400
\* leaves the table untouched.
C6_Original ==
  [][ /\ \A r \in Reqs :
           (reqs[r].pc = "idle" /\ reqs'[r].kind = "create")
           => \A url \in { Str(Url1), Str(Url2) }, code \in BodyCodes :
                ( /\ code.t = "string"
                  /\ ~MatchesPattern(code.s)
                  /\ CreateReceive(r, url, code) )
                => reqs'[r].pc = "done" /\ reqs'[r].status = 400
      /\ BadRequestTouchesNothing ]_vars

\* C6 (amended): every non-empty custom code that does not match
\* ^[A-Za-z0-9]{6,8}$ is answered 400 when the url is valid, and an invalid
\* or missing url is answered 400 whatever the code; a 400 is sent before
\* any statement, so the table is as it was.  An empty code counts as
\* omitted: a code is generated.
C6_InvalidCodeIsRejected ==
  [][ /\ \A r \in Reqs :
           (reqs[r].pc = "idle" /\ reqs'[r].kind = "create")
           => \A url \in BodyUrls, code \in BodyCodes :
                ( /\ \/ url \notin { Str(Url1), Str(Url2) }
                     \/ code.t = "string" /\ code.s # << >>
                          /\ ~MatchesPattern(code.s)
                  /\ CreateReceive(r, url, code) )
                => reqs'[r].pc = "done" /\ reqs'[r].status = 400
      /\ BadRequestTouchesNothing ]_vars

\* a POST was refused for its code
C6_Witness ==
  \E r \in Reqs :
    /\ reqs[r].kind = "create" /\ reqs[r].status = 400
    /\ reqs[r].error = "Custom code must match [A-Za-z0-9]{6,8}"

\* what a POST with the code left out answers when it creates its link
CreatedRecord(r) ==
  /\ reqs'[r].status = 201
  /\ Len(reqs'[r].rows) = 1
  /\ MatchesPattern(reqs'[r].rows[1].code)
  /\ reqs'[r].rows[1].target_url = reqs[r].url.s
  /\ reqs'[r].rows[1].total_clicks = 0
  /\ reqs'[r].rows[1].last_clicked = NULL
  /\ \E row \in links' :
       /\ row.code = reqs'[r].rows[1].code
       /\ row.target_url = reqs[r].url.s
       /\ row.total_clicks = 0
       /\ row.last_clicked = NULL

\* C7 as claimed: a POST with a valid url and the code left out always (but
\* for a store failure) answers 201 with a record of a 6-8 alphanumeric
\* code, total_clicks 0 and last_clicked null, whose row is in the table.
C7_Original ==
  [][ \A r \in Reqs :
        ( /\ reqs[r].kind = "create"
          /\ reqs[r].pc = "insert"
          /\ ~Truthy(reqs[r].bodyCode)
          /\ Answers(r)
          /\ ~reqs'[r].threw )
        => CreatedRecord(r) ]_vars

\* C7 (amended): a POST with a valid url and the code left out answers 201
\* with such a record, its row in the table, unless the generated code
\* already has a row: then it answers 409 and the table is as it was (and
\* 500 if the statement fails in the store).
C7_GeneratedCodeIsCreatedOrConflicts ==
  [][ \A r \in Reqs :
        ( /\ reqs[r].kind = "create"
          /\ reqs[r].pc = "insert"
          /\ ~Truthy(reqs[r].bodyCode)
          /\ reqs'[r] # reqs[r] )
        => /\ reqs'[r].pc = "done"
           /\ IF reqs'[r].threw
                THEN reqs'[r].status = 500 /\ links' = links
              ELSE IF HasRow(reqs[r].code.s)
                THEN reqs'[r].status = 409 /\ links' = links
              ELSE CreatedRecord(r) ]_vars

\* a generated code was inserted beside the stored link
C7_Witness ==
  \E r \in Reqs :
    /\ reqs[r].kind = "create" /\ reqs[r].status = 201
    /\ reqs[r].rows[1].code = CodeG
    /\ reqs[r].rows[1].total_clicks = 0
    /\ HasRow(CodeG) /\ HasRow(CodeA)

\* C4: a DELETE whose code has no row answers 404 and leaves the table as
\* it was; one whose code has a row answers 204 and removes that row and no
\* other (500, and nothing removed, if the statement fails in the store);
\* from then until a link of that code is created the code has no row, and
\* every lookup of GET /api/links/:code and GET /:code that runs answers 404.
C4_DeleteRemovesExactlyTheRow ==
  /\ [](\A c \in gone : ~HasRow(c))
  /\ [][ \A r \in Reqs :
           /\ (reqs[r].kind = "delete" /\ Answers(r))
              => IF reqs'[r].threw
                   THEN reqs'[r].status = 500 /\ links' = links
                 ELSE IF HasRow(reqs[r].code.s)
                   THEN /\ reqs'[r].status = 204
                        /\ links' = links \ { RowOf(links, reqs[r].code.s) }
                        /\ reqs[r].code.s \in gone'
                 ELSE reqs'[r].status = 404 /\ links' = links
           /\ ( /\ reqs[r].kind \in { "get", "redirect" }
                /\ reqs[r].pc \in { "query", "select" }
                /\ reqs[r].code.s \in gone
                /\ reqs'[r] # reqs[r] )
              => /\ reqs'[r].pc = "done"
                 /\ reqs'[r].status = (IF reqs'[r].threw THEN 500 ELSE 404)
                 /\ links' = links ]_vars

\* the stored link was deleted (204) and a later fetch of its code answered 404
C4_Witness ==
  \E r1, r2 \in Reqs :
    /\ r1 < r2
    /\ reqs[r1].kind = "delete" /\ reqs[r1].code = Str(CodeA)
    /\ reqs[r1].status = 204
    /\ reqs[r2].kind = "get" /\ reqs[r2].code = Str(CodeA)
    /\ reqs[r2].status = 404
    /\ CodeA \in gone /\ ~HasRow(CodeA)

\* s contains sub, letters compared without regard to case
Contains(s, sub) ==
  \E i \in 0..(Len(s) - Len(sub)) :
    \A j \in 1..Len(sub) : ToLower(s[i + j]) = ToLower(sub[j])

\* C8: GET /api/links with a query filter returns exactly the stored records
\* whose code or target_url contains the filter, case-insensitively, and
\* without one all the stored records; newest first in both cases.
C8_ListReturnsTheMatches ==
  [][ \A r \in Reqs :
        (reqs[r].kind = "list" /\ Answers(r) /\ ~reqs'[r].threw)
        => LET want == IF reqs[r].q.t = "string"
                         THEN { row \in links :
                                  \/ Contains(row.code, reqs[r].q.s)
                                  \/ Contains(row.target_url, reqs[r].q.s) }
                         ELSE links
           IN  /\ reqs'[r].status = 200
               /\ \E out \in OrderByCreatedDesc(want) :
                    reqs'[r].rows = [i \in DOMAIN out |-> Listed(out[i])] ]_vars

\* C9: a row is created with total_clicks 0 and last_clicked null; while it
\* lives total_clicks never decreases, and every step that changes its
\* total_clicks or last_clicked raises total_clicks by exactly 1 and is the
\* UPDATE of a redirect request for its code; no other request changes them.
C9_ClicksChangeOnlyByRedirect ==
  [][ /\ \A after \in links' :
           (~\E row \in links : row.code = after.code)
           => after.total_clicks = 0 /\ after.last_clicked = NULL
      /\ \A row \in links, after \in links' :
           row.code = after.code
           => /\ after.total_clicks >= row.total_clicks
              /\ ( \/ after.total_clicks # row.total_clicks
                   \/ after.last_clicked # row.last_clicked )
                 => /\ after.total_clicks = row.total_clicks + 1
                    /\ \E r \in Reqs :
                         /\ reqs[r].kind = "redirect"
                         /\ reqs[r].pc = "update"
                         /\ reqs[r].code.s = row.code
                         /\ reqs'[r].status = 302 ]_vars

\* the stored link was clicked once, at time 1, and then fetched
C9_Witness ==
  \E r1, r2 \in Reqs :
    /\ reqs[r1].kind = "redirect" /\ reqs[r1].status = 302
    /\ reqs[r2].kind = "get" /\ reqs[r2].status = 200
    /\ reqs[r2].rows[1].total_clicks = 1
    /\ reqs[r2].rows[1].last_clicked = << 1 >>
    /\ RowOf(links, reqs[r2].rows[1].code).total_clicks = 1

====
